---- MODULE Spec2Model ----
(***************************************************************************)
(* Model of two pieces of the repository:                                  *)
(*   - the middle-stage pass EltwiseChecker.find_and_replace_pattern       *)
(*     (model-optimizer/extensions/middle/EltwiseChecker.py), run over a   *)
(*     small graph whose shapes, layout and edge attributes are drawn from *)
(*     bounded sets;                                                       *)
(*   - the opset5 node factories non_max_suppression, gru_sequence and     *)
(*     rnn_sequence (ngraph/python/src/ngraph/opset5/ops.py), modelled by  *)
(*     the create call they issue.                                         *)
(***************************************************************************)
EXTENDS Integers, Sequences, FiniteSets, TLC

VARIABLES graph_layout,   \* graph.graph['layout']
          graph_node,     \* graph.node: node id -> attribute record
          graph_edges,    \* node id -> its sorted in-edges <<[src, control_flow_edge]>>
          pc,             \* outcome of the last run of the pass: idle, done, raised
          rerun,          \* whether the pass has been run again on its own result
          graph0,         \* the graph as it was handed to the first run
          args,           \* arguments of the last factory call
          call            \* the create call the last factory call issued

vars == <<graph_layout, graph_node, graph_edges, pc, rerun, graph0, args, call>>

----------------------------------------------------------------------------
(* Bounds *)

MaxRank == 3
MaxDim == 2
MaxListLen == 1
MaxFloat == 2

----------------------------------------------------------------------------
(* Shapes and numpy helpers *)

\* the sizes of an axis: no element, one element, MaxDim elements
Dims == {0, 1, MaxDim}

Shapes == UNION {[1..r -> Dims] : r \in 0..MaxRank}

\* the shape of rank MaxRank with MaxDim elements along every axis
FullShape == [i \in 1..MaxRank |-> MaxDim]

RECURSIVE np_prod(_)
np_prod(shape) == IF shape = <<>> THEN 1 ELSE Head(shape) * np_prod(Tail(shape))

\* only evaluated on non-empty shapes (np.max of an empty array raises)
RECURSIVE np_max(_)
np_max(shape) ==
    IF Len(shape) = 1 THEN shape[1]
    ELSE LET m == np_max(Tail(shape)) IN IF Head(shape) > m THEN Head(shape) ELSE m

\* s[i] with a Python index: 0-based, negative indices count from the end
index_ok(s, i) == -Len(s) <= i /\ i < Len(s)

py_get(s, i) == IF i >= 0 THEN s[i + 1] ELSE s[Len(s) + i + 1]

----------------------------------------------------------------------------
(* EltwiseChecker.find_and_replace_pattern *)

NodeIds == <<"D1", "D2", "D3", "E1", "N3", "E2">>

NodeSet == {NodeIds[i] : i \in 1..Len(NodeIds)}

\* line 36: the nodes whose type is 'Eltwise', in graph.node order
select_eltwise(nodes) == SelectSeq(NodeIds, LAMBDA n : nodes[n].type = "Eltwise")

\* line 39: an in-edge is a data input unless control_flow_edge is present and truthy
is_data_edge_absent_only(attr) == attr.control_flow_edge = "absent"

is_data_edge(attr) == attr.control_flow_edge = "absent" \/ attr.control_flow_edge = "False"

\* lines 38-39
raw_inputs(edges, node) == SelectSeq(edges[node], is_data_edge)

\* line 40
input_shapes(nodes, edges, node) ==
    LET raw == raw_inputs(edges, node) IN [i \in 1..Len(raw) |-> nodes[raw[i].src].shape]

\* lines 45-49: the loop that looks for the first input of maximal rank, from
\* position id on; best is the (1-based) position found so far, 0 for None
RECURSIVE find_max_dims_last(_, _, _)
find_max_dims_last(shapes, id, best) ==
    IF id > Len(shapes) THEN best
    ELSE IF best = 0 \/ Len(shapes[id]) >= Len(shapes[best])
         THEN find_max_dims_last(shapes, id + 1, id)
         ELSE find_max_dims_last(shapes, id + 1, best)

RECURSIVE find_max_dims(_, _, _)
find_max_dims(shapes, id, best) ==
    IF id > Len(shapes) THEN best
    ELSE IF best = 0 \/ Len(shapes[id]) > Len(shapes[best])
         THEN find_max_dims(shapes, id + 1, id)
         ELSE find_max_dims(shapes, id + 1, best)

\* lines 42-49: max_dims_id (1-based; there is at least one input)
max_dims_id_of_last(shapes) == find_max_dims_last(shapes, 1, 0)

max_dims_id_of(shapes) == find_max_dims(shapes, 1, 0)

\* lines 42-49: max_dims
max_dims_of(shapes) == Len(shapes[max_dims_id_of(shapes)])

\* line 51
feature_dim_of_last_axis(layout, max_dims) == max_dims - 1

feature_dim_of(layout, max_dims) == IF layout = "NCHW" THEN 1 ELSE max_dims - 1

\* line 51 raises TypeError (None - 1) when there is no data input and the layout is not NCHW
feature_dim_raises(layout, shapes) == shapes = <<>> /\ layout # "NCHW"

\* lines 55-57: check_shape raises IndexError when the two first conjuncts hold
\* and input_shape[feature_dim] or shape[-(max_dims - feature_dim)] is out of range
check_shape_raises(shape, input_shape, max_dims, feature_dim) ==
    /\ np_prod(shape) = np_max(shape)
    /\ (max_dims - feature_dim) <= Len(shape)
    /\ \/ ~index_ok(input_shape, feature_dim)
       \/ ~index_ok(shape, -1 * (max_dims - feature_dim))

\* lines 53-57, when it does not raise
check_shape(shape, input_shape, max_dims, feature_dim) ==
    /\ np_prod(shape) = np_max(shape)
    /\ (max_dims - feature_dim) <= Len(shape)
    /\ \/ py_get(input_shape, feature_dim) = py_get(shape, -1 * (max_dims - feature_dim))
       \/ /\ py_get(shape, -1 * (max_dims - feature_dim)) = 1
          /\ np_max(shape) = 1

\* lines 61-64: the loop over the inputs from position id on; flagged says
\* whether lines 63-64 have run, raised whether check_shape raised
RECURSIVE check_inputs(_, _, _, _, _, _)
check_inputs(shapes, max_dims, max_dims_id, feature_dim, id, flagged) ==
    IF id > Len(shapes) THEN [flagged |-> flagged, raised |-> FALSE]
    ELSE IF id # max_dims_id /\ Len(shapes[id]) > 0
         THEN IF check_shape_raises(shapes[id], shapes[max_dims_id], max_dims, feature_dim)
              THEN [flagged |-> flagged, raised |-> TRUE]
              ELSE check_inputs(shapes, max_dims, max_dims_id, feature_dim, id + 1,
                       flagged \/ (~check_shape(shapes[id], shapes[max_dims_id], max_dims, feature_dim)
                                   /\ np_prod(shapes[id]) # 1))
         ELSE check_inputs(shapes, max_dims, max_dims_id, feature_dim, id + 1, flagged)

\* lines 42-64 for one node, given the shapes of its data inputs
node_verdict(layout, shapes) ==
    IF shapes = <<>>
    THEN [flagged |-> FALSE, raised |-> feature_dim_raises(layout, shapes)]
    ELSE LET max_dims == max_dims_of(shapes)
             max_dims_id == max_dims_id_of(shapes)
             feature_dim == feature_dim_of(layout, max_dims)
         IN  check_inputs(shapes, max_dims, max_dims_id, feature_dim, 1, FALSE)

\* lines 63-64
set_flags_fused_only(attrs) == [attrs EXCEPT !.can_be_fused = "False"]

set_flags(attrs) == [attrs EXCEPT !.can_be_fused = "False", !.can_be_scaleshift = "False"]

\* a shape brought to rank max_dims by appending 1's
RECURSIVE pad_shape(_, _)
pad_shape(shape, max_dims) ==
    IF Len(shape) >= max_dims THEN shape ELSE pad_shape(Append(shape, 1), max_dims)

\* the loop body, were it to store the input shapes made "of the same size by
\* adding 1's" (the comment of line 59) back into the graph
visit_node_reshape(layout, nodes, edges, node) ==
    LET raw == raw_inputs(edges, node)
        shapes == input_shapes(nodes, edges, node)
        verdict == node_verdict(layout, shapes)
        srcs == {raw[i].src : i \in 1..Len(raw)}
    IN  [node |-> [n \in DOMAIN nodes |->
                      IF n = node /\ verdict.flagged THEN set_flags(nodes[n])
                      ELSE IF n \in srcs /\ ~verdict.raised
                           THEN [nodes[n] EXCEPT !.shape = pad_shape(@, max_dims_of(shapes))]
                           ELSE nodes[n]],
         raised |-> verdict.raised]

\* lines 38-64: the body of the loop for one node: graph.node afterwards, and
\* whether the body raised
visit_node(layout, nodes, edges, node) ==
    LET verdict == node_verdict(layout, input_shapes(nodes, edges, node))
    IN  [node |-> IF verdict.flagged THEN [nodes EXCEPT ![node] = set_flags(@)] ELSE nodes,
         raised |-> verdict.raised]

\* lines 37-64: the loop over the Eltwise nodes still to visit; it stops at
\* the first node whose body raises
RECURSIVE visit_all(_, _, _, _)
visit_all(layout, nodes, edges, todo) ==
    IF todo = <<>> THEN [node |-> nodes, raised |-> FALSE]
    ELSE LET visited == visit_node(layout, nodes, edges, Head(todo))
         IN  IF visited.raised THEN visited
             ELSE visit_all(layout, visited.node, edges, Tail(todo))

\* lines 35-64
find_and_replace_pattern(layout, nodes, edges) ==
    visit_all(layout, nodes, edges, select_eltwise(nodes))

----------------------------------------------------------------------------
(* The graphs the pass is run on *)

Graph == [layout |-> graph_layout, node |-> graph_node, edges |-> graph_edges]

ControlFlowValues == {"absent", "False", "True"}

data_attrs(shape) ==
    [type |-> "Const", shape |-> shape, can_be_fused |-> "absent", can_be_scaleshift |-> "absent"]

op_attrs(type, fused, scaleshift) ==
    [type |-> type, shape |-> <<>>, can_be_fused |-> fused, can_be_scaleshift |-> scaleshift]

nodes_of(s1, s2, s3) ==
    [n \in NodeSet |->
        CASE n = "D1" -> data_attrs(s1)
          [] n = "D2" -> data_attrs(s2)
          [] n = "D3" -> data_attrs(s3)
          [] n = "E1" -> op_attrs("Eltwise", "absent", "True")
          [] n = "E2" -> op_attrs("Eltwise", "True", "False")
          [] n = "N3" -> op_attrs("Concat", "True", "absent")]

edge(src, c) == [src |-> src, control_flow_edge |-> c]

edges_of(c) ==
    [n \in NodeSet |->
        CASE n = "E1" -> <<edge("D1", "absent"), edge("D2", "absent"), edge("D3", c)>>
          [] n = "E2" -> <<edge("D3", c), edge("D2", "False"), edge("D1", "absent")>>
          [] n = "N3" -> <<edge("D1", "absent"), edge("D2", "absent")>>
          [] OTHER -> <<>>]

NoCall == [op |-> "none", inputs |-> <<>>, attributes |-> <<>>]

Init ==
    /\ graph_layout \in {"NCHW", "NHWC"}
    /\ \E s1 \in Shapes, s2 \in Shapes : graph_node = nodes_of(s1, s2, FullShape)
    /\ \E c \in ControlFlowValues : graph_edges = edges_of(c)
    /\ pc = "idle"
    /\ rerun = FALSE
    /\ graph0 = Graph
    /\ args = <<>>
    /\ call = NoCall

\* lines 35-64: one run of the pass; it ends normally or in an exception
RunPass ==
    /\ pc \in {"idle", "done"}
    /\ \E result \in {find_and_replace_pattern(graph_layout, graph_node, graph_edges)} :
           /\ graph_node' = result.node
           /\ pc' = IF result.raised THEN "raised" ELSE "done"
    /\ rerun' = (pc = "done")
    /\ UNCHANGED <<graph_layout, graph_edges, graph0, args, call>>

Next == RunPass

Spec == Init /\ [][Next]_vars

----------------------------------------------------------------------------
(* ngraph opset5 factory functions: the create call each one issues *)

\* Optional[...] arguments: None, or a supplied value
None == <<>>

Some(x) == <<x>>

Parameter(id) == [kind |-> "Parameter", value |-> id, dtype |-> "f32"]

\* lines 150-154: make_constant_node(value, dtype)
make_constant_node(value, dtype) == [kind |-> "Constant", value |-> value, dtype |-> dtype]

\* lines 149-170; inputs are the arguments handed to as_nodes, in order
non_max_suppression_swapped(a) ==
    LET max_output_boxes_per_class ==
            IF a.max_output_boxes_per_class = None THEN make_constant_node(0, "int64")
            ELSE a.max_output_boxes_per_class[1]
        iou_threshold ==
            IF a.iou_threshold = None THEN make_constant_node(0, "float32")
            ELSE a.iou_threshold[1]
        score_threshold ==
            IF a.score_threshold = None THEN make_constant_node(0, "float32")
            ELSE a.score_threshold[1]
    IN  [op |-> "NonMaxSuppression",
         inputs |-> IF a.soft_nms_sigma = None
                    THEN <<a.boxes, a.scores, max_output_boxes_per_class,
                           score_threshold, iou_threshold>>
                    ELSE <<a.boxes, a.scores, max_output_boxes_per_class,
                           score_threshold, iou_threshold, a.soft_nms_sigma[1]>>,
         attributes |-> [box_encoding |-> a.box_encoding,
                         sort_result_descending |-> a.sort_result_descending,
                         output_type |-> a.output_type]]

non_max_suppression(a) ==
    LET max_output_boxes_per_class ==
            IF a.max_output_boxes_per_class = None THEN make_constant_node(0, "int64")
            ELSE a.max_output_boxes_per_class[1]
        iou_threshold ==
            IF a.iou_threshold = None THEN make_constant_node(0, "float32")
            ELSE a.iou_threshold[1]
        score_threshold ==
            IF a.score_threshold = None THEN make_constant_node(0, "float32")
            ELSE a.score_threshold[1]
    IN  [op |-> "NonMaxSuppression",
         inputs |-> IF a.soft_nms_sigma = None
                    THEN <<a.boxes, a.scores, max_output_boxes_per_class,
                           iou_threshold, score_threshold>>
                    ELSE <<a.boxes, a.scores, max_output_boxes_per_class,
                           iou_threshold, score_threshold, a.soft_nms_sigma[1]>>,
         attributes |-> [box_encoding |-> a.box_encoding,
                         sort_result_descending |-> a.sort_result_descending,
                         output_type |-> a.output_type]]

\* lines 235-253
gru_sequence(a) ==
    LET activations == IF a.activations = None THEN <<"sigmoid", "tanh">> ELSE a.activations[1]
        activations_alpha == IF a.activations_alpha = None THEN <<>> ELSE a.activations_alpha[1]
        activations_beta == IF a.activations_beta = None THEN <<>> ELSE a.activations_beta[1]
    IN  [op |-> "GRUSequence",
         inputs |-> <<a.X, a.H_t, a.sequence_lengths, a.W, a.R, a.B>>,
         attributes |-> [hidden_size |-> a.hidden_size,
                         activations |-> activations,
                         activations_alpha |-> activations_alpha,
                         activations_beta |-> activations_alpha,
                         clip |-> a.clip,
                         linear_before_reset |-> a.linear_before_reset]]

\* lines 291-308
rnn_sequence(a) ==
    LET activations == IF a.activations = None THEN <<"tanh">> ELSE a.activations[1]
        activations_alpha == IF a.activations_alpha = None THEN <<>> ELSE a.activations_alpha[1]
        activations_beta == IF a.activations_beta = None THEN <<>> ELSE a.activations_beta[1]
    IN  [op |-> "RNNSequence",
         inputs |-> <<a.X, a.H_t, a.sequence_lengths, a.W, a.R, a.B>>,
         attributes |-> [hidden_size |-> a.hidden_size,
                         activations |-> activations,
                         activations_alpha |-> activations_alpha,
                         activations_beta |-> activations_alpha,
                         clip |-> a.clip]]

\* the values the factory functions are called with
FloatLists == {[i \in 1..n |-> v] : n \in 0..MaxListLen, v \in 1..MaxFloat}

OptionalFloatLists == {None} \cup {Some(l) : l \in FloatLists}

OptionalActivations == {None, Some(<<"relu">>)}

OptionalNodes == {None, Some(Parameter(7)), Some(Parameter(8))}

Directions == {"forward", "reverse", "bidirectional"}

InitOps ==
    /\ graph_layout = "NCHW"
    /\ graph_node = nodes_of(<<>>, <<>>, <<>>)
    /\ graph_edges = edges_of("absent")
    /\ pc = "idle"
    /\ rerun = FALSE
    /\ graph0 = Graph
    /\ args = <<>>
    /\ call = NoCall

\* lines 121-170
CallNonMaxSuppression ==
    /\ \E m \in OptionalNodes, i \in OptionalNodes, s \in OptionalNodes, g \in OptionalNodes,
          e \in {"corner", "center"} :
          /\ args' = [fn |-> "non_max_suppression",
                      boxes |-> Parameter(1), scores |-> Parameter(2),
                      max_output_boxes_per_class |-> m, iou_threshold |-> i,
                      score_threshold |-> s, soft_nms_sigma |-> g,
                      box_encoding |-> e, sort_result_descending |-> TRUE, output_type |-> "i64"]
          /\ call' = non_max_suppression(args')
    /\ UNCHANGED <<graph_layout, graph_node, graph_edges, pc, rerun, graph0>>

\* the arguments shared by gru_sequence (lines 198-213) and rnn_sequence (lines 257-271)
sequence_args(fn, direction, activations, alpha, beta) ==
    [fn |-> fn,
     X |-> Parameter(1), H_t |-> Parameter(2), sequence_lengths |-> Parameter(3),
     W |-> Parameter(4), R |-> Parameter(5), B |-> Parameter(6),
     hidden_size |-> 1, direction |-> direction, activations |-> activations,
     activations_alpha |-> alpha, activations_beta |-> beta, clip |-> 0]

\* lines 197-253
CallGruSequence ==
    /\ \E d \in Directions, a \in OptionalActivations,
          alpha \in OptionalFloatLists, beta \in OptionalFloatLists :
          /\ args' = [n \in DOMAIN sequence_args("gru_sequence", d, a, alpha, beta)
                            \cup {"linear_before_reset"} |->
                         IF n = "linear_before_reset" THEN FALSE
                         ELSE sequence_args("gru_sequence", d, a, alpha, beta)[n]]
          /\ call' = gru_sequence(args')
    /\ UNCHANGED <<graph_layout, graph_node, graph_edges, pc, rerun, graph0>>

\* lines 256-308
CallRnnSequence ==
    /\ \E d \in Directions, a \in OptionalActivations,
          alpha \in OptionalFloatLists, beta \in OptionalFloatLists :
          /\ args' = sequence_args("rnn_sequence", d, a, alpha, beta)
          /\ call' = rnn_sequence(args')
    /\ UNCHANGED <<graph_layout, graph_node, graph_edges, pc, rerun, graph0>>

NextOps == CallNonMaxSuppression \/ CallGruSequence \/ CallRnnSequence

SpecOps == InitOps /\ [][NextOps]_vars

----------------------------------------------------------------------------
(* Vocabulary of the properties, read off the graph the pass was handed *)

EltwiseNodes == {n \in NodeSet : graph0.node[n].type = "Eltwise"}

\* the shapes of the inputs of node n that are not control-flow inputs, in input order
DataShapes(n) ==
    LET es == SelectSeq(graph0.edges[n], LAMBDA a : a.control_flow_edge # "True")
    IN  [i \in 1..Len(es) |-> graph0.node[es[i].src].shape]

\* the shapes of all the inputs of node n, control-flow inputs included
AllShapes(n) == [i \in 1..Len(graph0.edges[n]) |-> graph0.node[graph0.edges[n][i].src].shape]

\* position of the reference: the first shape of maximal rank
RefIndex(shapes) ==
    CHOOSE i \in 1..Len(shapes) :
        /\ \A j \in 1..Len(shapes) : Len(shapes[j]) <= Len(shapes[i])
        /\ \A j \in 1..(i - 1) : Len(shapes[j]) < Len(shapes[i])

RefShape(shapes) == shapes[RefIndex(shapes)]

\* the feature axis f of a reference of shape ref
FeatureAxis(ref) == IF graph0.layout = "NCHW" THEN 1 ELSE Len(ref) - 1

\* n - f: the feature position of an operand is index -(n - f) from its end
FromEnd(ref) == Len(ref) - FeatureAxis(ref)

\* the feature dimension C of the reference, where it has one
HasFeatureDim(ref) == 0 <= FeatureAxis(ref) /\ FeatureAxis(ref) < Len(ref)

FeatureDim(ref) == ref[FeatureAxis(ref) + 1]

\* (1-based) position in shape s of the dimension aligned with the feature axis
FeaturePos(s, ref) == Len(s) - FromEnd(ref) + 1

\* shape s is 'like 1,N,1,1' with N = C
PerChannel(s, ref) ==
    /\ Len(s) >= FromEnd(ref)
    /\ \A j \in 1..Len(s) : IF j = FeaturePos(s, ref) THEN s[j] = FeatureDim(ref) ELSE s[j] = 1

\* shape s is not per-channel: a dimension greater than 1 off the feature
\* position, or a feature-position dimension other than C
OffChannel(s, ref) ==
    \/ \E j \in 1..Len(s) : j # FeaturePos(s, ref) /\ s[j] > 1
    \/ /\ FeaturePos(s, ref) \in 1..Len(s)
       /\ s[FeaturePos(s, ref)] # FeatureDim(ref)

\* every data input but the reference (at position r) is rank 0, one-element or per-channel
OperandsPerChannel(shapes, r) ==
    \A i \in 1..Len(shapes) :
        \/ i = r
        \/ Len(shapes[i]) = 0
        \/ np_prod(shapes[i]) = 1
        \/ PerChannel(shapes[i], shapes[r])

Disqualified(n) ==
    /\ graph_node[n].can_be_fused = "False"
    /\ graph_node[n].can_be_scaleshift = "False"

Untouched(n) == graph_node[n] = graph0.node[n]

Reorderings(shapes) ==
    {[i \in 1..Len(shapes) |-> shapes[p[i]]] : p \in Permutations(1..Len(shapes))}

----------------------------------------------------------------------------
(* Properties *)

\* C1: after a completed run, an Eltwise node with a data input other than the
\* reference that has more than one element and is off-channel (a dimension
\* above 1 away from the feature position, or a feature-position dimension
\* different from the reference's) has can_be_fused and can_be_scaleshift False.
C1_OffChannelDisqualified ==
    pc = "done" =>
        \A n \in EltwiseNodes : \A shapes \in {DataShapes(n)} : \A r \in {RefIndex(shapes)} :
            (/\ HasFeatureDim(shapes[r])
             /\ \E i \in 1..Len(shapes) :
                   /\ i # r
                   /\ np_prod(shapes[i]) > 1
                   /\ OffChannel(shapes[i], shapes[r]))
            => Disqualified(n)

\* C2: after a completed run, an Eltwise node whose reference has rank n >= 2
\* and whose other data inputs are all rank 0, one-element or 'like 1,N,1,1'
\* with N the reference's feature dimension has its attributes unchanged.
C2_PerChannelKept ==
    pc = "done" =>
        \A n \in EltwiseNodes : \A shapes \in {DataShapes(n)} : \A r \in {RefIndex(shapes)} :
            (Len(shapes[r]) >= 2 /\ OperandsPerChannel(shapes, r)) => Untouched(n)

\* C2 (amended): the same, for a reference whose feature dimension is at least 1.
C2_PerChannelKeptNonEmpty ==
    pc = "done" =>
        \A n \in EltwiseNodes : \A shapes \in {DataShapes(n)} : \A r \in {RefIndex(shapes)} :
            (/\ Len(shapes[r]) >= 2
             /\ FeatureDim(shapes[r]) >= 1
             /\ OperandsPerChannel(shapes, r))
            => Untouched(n)

\* a completed run that kept a node with a per-channel operand of several
\* elements and of rank 2 or more
C2_Witness ==
    /\ pc = "done"
    /\ \E shapes \in {DataShapes("E1")} : \E r \in {RefIndex(shapes)} :
          /\ Len(shapes[r]) >= 2
          /\ FeatureDim(shapes[r]) >= 2
          /\ OperandsPerChannel(shapes, r)
          /\ \E i \in 1..Len(shapes) :
                i # r /\ np_prod(shapes[i]) > 1 /\ Len(shapes[i]) >= 2
    /\ Untouched("E1")

\* C3: on a graph whose Eltwise nodes all have a data input, the pass does not raise.
C3_NeverRaises ==
    (\A n \in EltwiseNodes : Len(DataShapes(n)) >= 1) => pc # "raised"

\* C4: the pass leaves layout, edges and every attribute other than the two
\* flags of Eltwise nodes as they were; when an Eltwise node differs from what
\* it was, both of its flags are False.
C4_OnlyFlagsWritten ==
    /\ graph_layout = graph0.layout
    /\ graph_edges = graph0.edges
    /\ DOMAIN graph_node = DOMAIN graph0.node
    /\ \A n \in NodeSet :
          /\ graph_node[n].type = graph0.node[n].type
          /\ graph_node[n].shape = graph0.node[n].shape
          /\ DOMAIN graph_node[n] = DOMAIN graph0.node[n]
          /\ graph0.node[n].type # "Eltwise" => Untouched(n)
          /\ ~Untouched(n) => Disqualified(n)
          /\ graph0.node[n].can_be_fused = "False" => graph_node[n].can_be_fused = "False"
          /\ graph0.node[n].can_be_scaleshift = "False"
                => graph_node[n].can_be_scaleshift = "False"

\* a completed run that disqualified one Eltwise node and kept another
C4_Witness ==
    /\ pc = "done"
    /\ ~Untouched("E1")
    /\ Untouched("E2")

\* C8: after a completed run, an Eltwise node is disqualified exactly when the
\* pass's verdict on its inputs without the control-flow ones (edge attribute
\* present and truthy) says so.
C8_ControlFlowIgnored ==
    pc = "done" =>
        \A n \in EltwiseNodes : \A v \in {node_verdict(graph0.layout, DataShapes(n))} :
            /\ ~v.raised
            /\ ~Untouched(n) <=> v.flagged

\* a completed run that kept a node which its control-flow input, taken as data,
\* would have disqualified
C8_Witness ==
    /\ pc = "done"
    /\ graph0.edges["E1"][3].control_flow_edge = "True"
    /\ Untouched("E1")
    /\ node_verdict(graph0.layout, AllShapes("E1")).flagged

\* C9: after a completed run, an Eltwise node is disqualified exactly when the
\* pass's verdict on any permutation of its data inputs says so.
C9_OrderIndependent ==
    pc = "done" =>
        \A n \in EltwiseNodes : \A p \in Reorderings(DataShapes(n)) :
            \A v \in {node_verdict(graph0.layout, p)} :
                /\ ~v.raised
                /\ ~Untouched(n) <=> v.flagged

\* C9 (amended): the same, for the permutations that keep the shape of the
\* reference (the first input of maximal rank).
C9_OrderIndependentSameReference ==
    pc = "done" =>
        \A n \in EltwiseNodes : \A ref \in {RefShape(DataShapes(n))} :
            \A p \in Reorderings(DataShapes(n)) :
                RefShape(p) = ref =>
                    \A v \in {node_verdict(graph0.layout, p)} :
                        /\ ~v.raised
                        /\ ~Untouched(n) <=> v.flagged

\* a completed run that disqualified a node with three data inputs, which has
\* a permutation that moves the reference and keeps its shape
C9_Witness ==
    /\ pc = "done"
    /\ ~Untouched("E1")
    /\ \E shapes \in {DataShapes("E1")} :
          /\ Len(shapes) = 3
          /\ \E p \in Reorderings(shapes) :
                RefIndex(p) # RefIndex(shapes) /\ RefShape(p) = RefShape(shapes)

\* C10: once a run has completed, no later run changes the graph.
C10_Idempotent ==
    [][pc = "done" => (graph_node' = graph_node /\ graph_layout' = graph_layout
                       /\ graph_edges' = graph_edges /\ pc' = "done")]_vars

\* a second completed run on a graph in which the first disqualified a node
C10_Witness ==
    /\ pc = "done"
    /\ rerun
    /\ ~Untouched("E1")

\* C5: the create call of gru_sequence and rnn_sequence carries the caller's
\* activations_alpha and activations_beta (the empty list for None).
C5_ActivationsForwarded ==
    call.op \in {"GRUSequence", "RNNSequence"} =>
        /\ call.attributes.activations_alpha =
              (IF args.activations_alpha = None THEN <<>> ELSE args.activations_alpha[1])
        /\ call.attributes.activations_beta =
              (IF args.activations_beta = None THEN <<>> ELSE args.activations_beta[1])

\* C6: the create call of gru_sequence and rnn_sequence carries the caller's direction.
C6_DirectionForwarded ==
    call.op \in {"GRUSequence", "RNNSequence"} =>
        /\ "direction" \in DOMAIN call.attributes
        /\ call.attributes.direction = args.direction

\* C7: the create call of non_max_suppression has the five inputs boxes,
\* scores, max_output_boxes_per_class, iou_threshold, score_threshold in that
\* order, followed by soft_nms_sigma when it is supplied; an omitted one of
\* the three middle inputs is the constant 0 (int64, float32, float32).
C7_NmsInputs ==
    call.op = "NonMaxSuppression" =>
        /\ Len(call.inputs) = IF args.soft_nms_sigma = None THEN 5 ELSE 6
        /\ call.inputs[1] = args.boxes
        /\ call.inputs[2] = args.scores
        /\ call.inputs[3] = IF args.max_output_boxes_per_class = None
                            THEN [kind |-> "Constant", value |-> 0, dtype |-> "int64"]
                            ELSE args.max_output_boxes_per_class[1]
        /\ call.inputs[4] = IF args.iou_threshold = None
                            THEN [kind |-> "Constant", value |-> 0, dtype |-> "float32"]
                            ELSE args.iou_threshold[1]
        /\ call.inputs[5] = IF args.score_threshold = None
                            THEN [kind |-> "Constant", value |-> 0, dtype |-> "float32"]
                            ELSE args.score_threshold[1]
        /\ args.soft_nms_sigma # None => call.inputs[6] = args.soft_nms_sigma[1]

\* a call with a default filled in between supplied inputs, and soft_nms_sigma
C7_Witness ==
    /\ call.op = "NonMaxSuppression"
    /\ args.max_output_boxes_per_class # None
    /\ args.iou_threshold = None
    /\ args.score_threshold # None
    /\ args.soft_nms_sigma # None
    /\ Len(call.inputs) = 6

====
